---------------------------- MODULE Spec2Model ----------------------------
(***************************************************************************)
(* A model of the terminal core of cancer: Terminal::open, Terminal::key   *)
(* and Terminal::handle of src/terminal/terminal.rs, with the cell, cursor,*)
(* touched-set and control-parser collaborators it calls.                  *)
(*                                                                         *)
(* Coordinates are 0-based as in the code; TLA+ sequences are 1-based, so  *)
(* a grid access rows[r][x] of the code reads rows[r + 1][x + 1] here.     *)
(* Option<T> is a sequence: <<>> is None and <<v>> is Some(v).             *)
(***************************************************************************)
EXTENDS Integers, Sequences, FiniteSets, TLC

----------------------------------------------------------------------------
(* Bounds of the model.                                                    *)

\* width of the terminal given to open()
Cols == 3
\* height of the terminal given to open()
Rows == 2
\* rows of scrollback the model lets the grid grow by
MaxScroll == 1
\* handle()/key() calls explored from open()
MaxSteps == 4
\* handle() rounds explored by the specification that feeds byte streams
MaxFeeds == 2

MaxLen == Rows + MaxScroll

\* the scrollback capacity of the Config given to open(): scrollback disabled
Scrollback == 0

\* capacity of the glyph cache given to Cache::new
Capacity == 2
\* width and height of the snapshot grid given to Cache::new
CacheWidth == 2
CacheHeight == 1
\* Cache::update, invalidate and resize calls explored from Cache::new
MaxUpdates == 3
\* Cache::compute calls explored from Cache::new
MaxComputes == 4
\* widest terminal on which the columns of a written grapheme are computed
MaxCols == 5
\* largest tile width and height given to Sixel::new
MaxTile == 6
\* Sixel calls explored from Sixel::new
MaxSixel == 4

----------------------------------------------------------------------------
(* Bytes and graphemes.                                                    *)

ESC == 27
\* the grapheme "E" written by DECALN
LetterE == 69
\* a narrow (width 1) grapheme, "x"
Narrow == 120
\* a wide (width 2) grapheme, one CJK ideograph, taken as one input unit
Wide == 20013

\* UnicodeWidthStr::width of a grapheme
Width(ch) == IF ch = Wide THEN 2 ELSE 1

Min(a, b) == IF a < b THEN a ELSE b
Max(a, b) == IF a > b THEN a ELSE b

----------------------------------------------------------------------------
(* Style: foreground, background and attribute bits.                       *)

DefaultStyle == [foreground |-> <<>>, background |-> <<>>, attributes |-> {}]

----------------------------------------------------------------------------
(* Cell: Empty { style } | Occupied { style, value } | Reference(offset).  *)

Empty(style) ==
    [tag |-> "Empty", style |-> style, value |-> 0, offset |-> 0]

Occupied(ch, style) ==
    [tag |-> "Occupied", style |-> style, value |-> ch, offset |-> 0]

Reference(k) ==
    [tag |-> "Reference", style |-> DefaultStyle, value |-> 0, offset |-> k]

\* Cell::into_empty, Cell::into_occupied, Cell::into_reference replace the
\* cell in place, whatever it held.
into_empty(cell, style) == Empty(style)
into_occupied(cell, ch, style) == Occupied(ch, style)
into_reference(cell, k) == Reference(k)

EmptyRow(style) == [i \in 1 .. Cols |-> Empty(style)]

----------------------------------------------------------------------------
(* The area and the touched set.                                           *)

AreaCoords == (0 .. Cols - 1) \X (0 .. Rows - 1)

TouchedAll(t) == [t EXCEPT !.touched = AreaCoords]
TouchedLine(t, y) == [t EXCEPT !.touched = @ \cup {<<x, y>> : x \in 0 .. Cols - 1}]

\* self.touched.iter(self.area): the dirty coordinates within the area are
\* returned and the set is left empty.
TouchedIter(t) ==
    [t EXCEPT !.dirty = t.touched \cap AreaCoords, !.touched = {}]

----------------------------------------------------------------------------
(* Cursor.                                                                 *)

NewCursor ==
    [x |-> 0, y |-> 0, style |-> DefaultStyle, visible |-> TRUE,
     blink |-> TRUE, shape |-> "Block", background |-> "config"]

Up(n) == [op |-> "Up", n |-> n, x |-> <<>>, y |-> <<>>]
Down(n) == [op |-> "Down", n |-> n, x |-> <<>>, y |-> <<>>]
Left(n) == [op |-> "Left", n |-> n, x |-> <<>>, y |-> <<>>]
Right(n) == [op |-> "Right", n |-> n, x |-> <<>>, y |-> <<>>]
Position(x, y) == [op |-> "Position", n |-> 0, x |-> x, y |-> y]

\* Cursor::travel: the moved cursor, clamped to the area, and Some(n) when n
\* fresh rows have to be appended.
Travel(c, tr) ==
    CASE tr.op = "Up" ->
           [cursor |-> [c EXCEPT !.y = Max(0, c.y - tr.n)], scroll |-> <<>>]
      [] tr.op = "Down" ->
           IF c.y + tr.n > Rows - 1
           THEN [cursor |-> [c EXCEPT !.y = Rows - 1],
                 scroll |-> <<c.y + tr.n - (Rows - 1)>>]
           ELSE [cursor |-> [c EXCEPT !.y = c.y + tr.n], scroll |-> <<>>]
      [] tr.op = "Left" ->
           [cursor |-> [c EXCEPT !.x = Max(0, c.x - tr.n)], scroll |-> <<>>]
      [] tr.op = "Right" ->
           [cursor |-> [c EXCEPT !.x = Min(Cols - 1, c.x + tr.n)], scroll |-> <<>>]
      [] tr.op = "Position" ->
           [cursor |-> [c EXCEPT
                          !.x = IF tr.x = <<>> THEN @ ELSE Min(Cols - 1, tr.x[1]),
                          !.y = IF tr.y = <<>> THEN @ ELSE Min(Rows - 1, tr.y[1])],
            scroll |-> <<>>]

----------------------------------------------------------------------------
(* The term! macro.                                                        *)

\* term!(self; row for y): scroll is None in every state open() and handle()
\* produce, so the window is the last Rows rows of the grid.
RowFor(t, y) == y + (Len(t.rows) - Rows)

\* term!(self; extend)
Extend(t) == [t EXCEPT !.rows = Append(@, EmptyRow(t.cursor.style))]

RECURSIVE ExtendN(_, _)
ExtendN(t, n) == IF n = 0 THEN t ELSE ExtendN(Extend(t), n - 1)

\* term!(self; cursor <travel>), r being what Cursor::travel returned
Travelled(t, r) ==
    LET moved == [t EXCEPT !.cursor = r.cursor,
                           !.touched = @ \cup {<<t.cursor.x, t.cursor.y>>,
                                               <<r.cursor.x, r.cursor.y>>}]
    IN  IF r.scroll = <<>> THEN moved
        ELSE ExtendN([moved EXCEPT !.touched = AreaCoords], r.scroll[1])

CursorTravel(t, tr) == Travelled(t, Travel(t.cursor, tr))

\* the cell of the visible window at (x, y)
CellAt(t, x, y) == t.rows[RowFor(t, y) + 1][x + 1]

Panic(t) == [t EXCEPT !.panic = TRUE]

----------------------------------------------------------------------------
(* Terminal::open                                                          *)

Open ==
    [rows |-> [r \in 1 .. Rows |-> EmptyRow(DefaultStyle)],
     cursor |-> NewCursor,
     saved |-> <<>>,
     mode |-> {"WRAP"},
     cache |-> <<>>,
     touched |-> {},
     dirty |-> {},
     output |-> <<>>,
     actions |-> <<>>,
     panic |-> FALSE]

----------------------------------------------------------------------------
(* Control items, as control::parse produces them.                         *)

C0Item(name) == [k |-> "C0", name |-> name]
NextLineItem == [k |-> "NextLine"]
TextItem(string) == [k |-> "None", string |-> string]
CsiItem(name) == [k |-> "CSI", name |-> name]
CsiN(name, n) == [k |-> "CSI", name |-> name, n |-> n]
CsiPosition(x, y) == [k |-> "CSI", name |-> "CursorPosition", x |-> x, y |-> y]
CsiErase(name, erase) == [k |-> "CSI", name |-> name, erase |-> erase]
CsiModes(name, modes) == [k |-> "CSI", name |-> name, modes |-> modes]
CsiPrivate(final, args) ==
    [k |-> "CSI", name |-> "Private", final |-> final, args |-> args]
CsiSgr(attrs) ==
    [k |-> "CSI", name |-> "SelectGraphicalRendition", attrs |-> attrs]
CsiUnknown(final, intermediate, args) ==
    [k |-> "CSI", name |-> "Unknown", final |-> final,
     intermediate |-> intermediate, args |-> args]
OscItem(cmd) == [k |-> "OSC", cmd |-> cmd]
OtherItem == [k |-> "Other"]

\* SGR attributes
Sgr(name, on, color) == [sgr |-> name, on |-> on, color |-> color]
SgrReset == Sgr("Reset", FALSE, 0)
SgrForeground(index) == Sgr("Foreground", FALSE, index)
SgrBackground(index) == Sgr("Background", FALSE, index)

\* SGR::Color::Default, next to the palette indexes 0 .. 255
ColorDefault == 256

\* to_rgba: the colour a style stores; the configured default foreground and
\* background are the values 300 and 301
to_rgba(color, foreground) ==
    IF color = ColorDefault THEN (IF foreground THEN 300 ELSE 301)
    ELSE color

----------------------------------------------------------------------------
(* Terminal::handle, one operator per arm of its match.                    *)

\* every cell of the visible window whose coordinates are in S becomes Empty
\* with the cursor's style
EraseCells(t, S) ==
    LET off == Len(t.rows) - Rows
    IN  [t EXCEPT !.rows =
           [r \in 1 .. Len(t.rows) |->
              [c \in 1 .. Cols |->
                 IF <<c - 1, r - 1 - off>> \in S
                 THEN into_empty(t.rows[r][c], t.cursor.style)
                 ELSE t.rows[r][c]]]]

Touch(t, S) == [t EXCEPT !.touched = @ \cup S]

LineCoords(y) == {<<x, y>> : x \in 0 .. Cols - 1}

\* DECALN
ScreenAlignment(t) ==
    LET off == Len(t.rows) - Rows
    IN  TouchedAll([t EXCEPT !.rows =
           [r \in 1 .. Len(t.rows) |->
              IF r - 1 - off \in 0 .. Rows - 1
              THEN [c \in 1 .. Cols |->
                      into_occupied(t.rows[r][c], LetterE, t.cursor.style)]
              ELSE t.rows[r]]])

\* a DECBI whose column scroll keeps the last cell of every row
BackIndexKeepingLast(t) ==
    IF t.cursor.x = 0
    THEN [t EXCEPT !.rows =
            [r \in 1 .. Len(t.rows) |->
               IF r - 1 \in RowFor(t, 0) .. Rows - 1
               THEN <<Empty(t.cursor.style)>> \o t.rows[r]
               ELSE t.rows[r]]]
    ELSE CursorTravel(t, Left(1))

\* DECBI
BackIndex(t) ==
    IF t.cursor.x = 0
    THEN LET row == RowFor(t, 0)
         IN  [t EXCEPT !.rows =
                [r \in 1 .. Len(t.rows) |->
                   IF r - 1 \in row .. Rows - 1
                   THEN <<Empty(t.cursor.style)>> \o SubSeq(t.rows[r], 1, Cols - 1)
                   ELSE t.rows[r]]]
    ELSE CursorTravel(t, Left(1))

\* DECFI
ForwardIndex(t) ==
    IF t.cursor.x = Cols - 1
    THEN LET row == RowFor(t, 0)
         IN  [t EXCEPT !.rows =
                [r \in 1 .. Len(t.rows) |->
                   IF r - 1 \in row .. Rows - 1
                   THEN Tail(t.rows[r]) \o <<Empty(t.cursor.style)>>
                   ELSE t.rows[r]]]
    ELSE CursorTravel(t, Right(1))

\* DECSC and CSI SaveCursor
SaveCursor(t) == [t EXCEPT !.saved = <<t.cursor>>]

\* a restore that puts back everything but the row
RestoreCursorKeepRow(t) ==
    IF t.saved # <<>>
    THEN [t EXCEPT !.cursor = [t.saved[1] EXCEPT !.y = t.cursor.y], !.saved = <<>>]
    ELSE t

\* a restore that leaves the saved cursor in its slot
RestoreCursorKeepingSaved(t) ==
    IF t.saved # <<>> THEN [t EXCEPT !.cursor = t.saved[1]]
    ELSE t

\* DECRC and CSI RestoreCursor
RestoreCursor(t) ==
    IF t.saved # <<>> THEN [t EXCEPT !.cursor = t.saved[1], !.saved = <<>>]
    ELSE t

\* Control::C0(C0::Escape): the bytes after ESC are read from the rest of
\* the input; [t, input] is the terminal and the input left.
Escape(t, input) ==
    IF input = <<>> THEN [t |-> t, input |-> input]
    ELSE LET code == input[1]
             rest == Tail(input)
         IN  CASE code = 35 ->
                    IF rest = <<>> THEN [t |-> t, input |-> rest]
                    ELSE LET code2 == rest[1]
                             rest2 == Tail(rest)
                         IN  CASE code2 = 56 -> [t |-> ScreenAlignment(t), input |-> rest2]
                               [] code2 = 54 -> [t |-> BackIndex(t), input |-> rest2]
                               [] code2 = 57 -> [t |-> ForwardIndex(t), input |-> rest2]
                               [] OTHER -> [t |-> t, input |-> rest2]
               [] code = 55 -> [t |-> SaveCursor(t), input |-> rest]
               [] code = 56 -> [t |-> RestoreCursor(t), input |-> rest]
               [] code = 61 ->
                    [t |-> [t EXCEPT !.mode = @ \cup {"APPLICATION_KEYPAD"}],
                     input |-> rest]
               [] code = 62 ->
                    [t |-> [t EXCEPT !.mode = @ \ {"APPLICATION_KEYPAD"}],
                     input |-> rest]
               [] OTHER -> [t |-> t, input |-> rest]

\* CSI::DeviceAttributes(0): the bytes of the literal b"\033[?6c", in which
\* \0 is the NUL escape and the two characters 3 3 follow it
DeviceAttributesReply == <<0, 51, 51, 91, 63, 54, 99>>

DeviceAttributes(t) == [t EXCEPT !.output = @ \o DeviceAttributesReply]

\* the mode a CSI::Mode of Set/Reset stands for
ModeOf(m) ==
    CASE m = "KeyboardAction" -> {"KEYBOARD_LOCK"}
      [] m = "InsertionReplacement" -> {"INSERT"}
      [] m = "SendReceive" -> {"ECHO"}
      [] m = "LineFeed" -> {"CRLF"}
      [] OTHER -> {}

RECURSIVE SetModes(_, _)
SetModes(t, modes) ==
    IF modes = <<>> THEN t
    ELSE SetModes([t EXCEPT !.mode = @ \cup ModeOf(Head(modes))], Tail(modes))

RECURSIVE ResetModes(_, _)
ResetModes(t, modes) ==
    IF modes = <<>> THEN t
    ELSE ResetModes([t EXCEPT !.mode = @ \ ModeOf(Head(modes))], Tail(modes))

\* the mode a DEC private parameter stands for
PrivateModeOf(arg) ==
    CASE arg = 1 -> {"APPLICATION_CURSOR"}
      [] arg = 5 -> {"REVERSE"}
      [] arg = 7 -> {"WRAP"}
      [] arg = 1004 -> {"FOCUS"}
      [] arg = 2004 -> {"BRACKETED_PASTE"}
      [] OTHER -> {}

\* CSI::Private(b'h', None, args)
RECURSIVE PrivateSet(_, _)
PrivateSet(t, args) ==
    IF args = <<>> THEN t
    ELSE LET arg == Head(args)
         IN  PrivateSet(
                IF arg = 25 THEN [t EXCEPT !.cursor.visible = FALSE]
                ELSE [t EXCEPT !.mode = @ \cup PrivateModeOf(arg)],
                Tail(args))

\* CSI::Private(b'l', None, args)
RECURSIVE PrivateReset(_, _)
PrivateReset(t, args) ==
    IF args = <<>> THEN t
    ELSE LET arg == Head(args)
         IN  PrivateReset(
                IF arg = 25 THEN [t EXCEPT !.cursor.visible = TRUE]
                ELSE [t EXCEPT !.mode = @ \ PrivateModeOf(arg)],
                Tail(args))

\* CSI::EraseDisplay(erase)
EraseDisplay(t, erase) ==
    LET x == t.cursor.x
        y == t.cursor.y
    IN  CASE erase = "ToEnd" ->
               LET S == {<<i, y>> : i \in x .. Cols - 1}
                          \cup UNION {LineCoords(j) : j \in y .. Rows - 1}
               IN  EraseCells(Touch(t, S), S)
          [] erase = "ToStart" ->
               LET S == {<<i, y>> : i \in 0 .. x - 1}
                          \cup UNION {LineCoords(j) : j \in 0 .. y - 1}
               IN  EraseCells(Touch(t, S), S)
          [] erase = "All" ->
               EraseCells(TouchedAll(t), AreaCoords)

\* CSI::EraseLine(erase)
EraseLine(t, erase) ==
    LET x == t.cursor.x
        y == t.cursor.y
    IN  CASE erase = "ToEnd" ->
               LET S == {<<i, y>> : i \in x .. Cols - 1}
               IN  EraseCells(Touch(t, S), S)
          [] erase = "ToStart" ->
               LET S == {<<i, y>> : i \in 0 .. x - 1}
               IN  EraseCells(Touch(t, S), S)
          [] erase = "All" ->
               EraseCells(TouchedLine(t, y), LineCoords(y))

\* the lines y .. area.height - 1 are marked touched
TouchFrom(t, y) == Touch(t, UNION {LineCoords(j) : j \in y .. Rows - 1})

\* a DeleteLine that takes the cursor's row for an index of the grid
DeleteLineFromTop(t, n) ==
    LET y == t.cursor.y
    IN  IF y + n > Len(t.rows) THEN Panic(t)
        ELSE TouchFrom(ExtendN([t EXCEPT !.rows =
                                  SubSeq(@, 1, y) \o SubSeq(@, y + n + 1, Len(@))],
                               n), y)

\* CSI::DeleteLine(n): VecDeque::drain panics when its range ends after the
\* last row
DeleteLine(t, n) ==
    LET y == t.cursor.y
        row == RowFor(t, y)
    IN  IF row + n > Len(t.rows) THEN Panic(t)
        ELSE LET drained == [t EXCEPT !.rows =
                               SubSeq(@, 1, row) \o SubSeq(@, row + n + 1, Len(@))]
             IN  TouchFrom(ExtendN(drained, n), y)

\* an InsertLine that scrolls off the rows next to the cursor instead of the
\* bottom rows
InsertLineDroppingNearest(t, n) ==
    LET y == t.cursor.y
        row == RowFor(t, y)
        rest == SubSeq(t.rows, row + 1, Len(t.rows))
        head == ExtendN([t EXCEPT !.rows = SubSeq(@, 1, row)], n)
        keep == Rows - y - n
    IN  IF keep < 0 \/ keep > Len(rest) THEN Panic(t)
        ELSE TouchFrom([head EXCEPT !.rows =
                          @ \o SubSeq(rest, Len(rest) - keep + 1, Len(rest))], y)

\* CSI::InsertLine(n): area.height - y - n is unsigned; when it underflows
\* the subtraction panics or wraps to an index after the last row of rest,
\* where drain panics
InsertLine(t, n) ==
    LET y == t.cursor.y
        row == RowFor(t, y)
        rest == SubSeq(t.rows, row + 1, Len(t.rows))
        head == ExtendN([t EXCEPT !.rows = SubSeq(@, 1, row)], n)
        keep == Rows - y - n
    IN  IF keep < 0 \/ keep > Len(rest) THEN Panic(t)
        ELSE TouchFrom([head EXCEPT !.rows = @ \o SubSeq(rest, 1, keep)], y)

\* one grapheme of Control::None(string), written at the cursor of wrapped,
\* the terminal after the wrap
WriteGrapheme(wrapped, ch) ==
    LET width == Width(ch)
        x == wrapped.cursor.x
        y == wrapped.cursor.y
        cell == CellAt(wrapped, x, y)
        changed == CASE cell.tag = "Empty" -> TRUE
                     [] cell.tag = "Occupied" ->
                          cell.value # ch \/ cell.style # wrapped.cursor.style
                     [] cell.tag = "Reference" -> FALSE
        row == RowFor(wrapped, y) + 1
        written ==
            [wrapped EXCEPT
               !.rows[row] =
                  [c \in 1 .. Cols |->
                     IF c - 1 = x
                     THEN into_occupied(@[c], ch, wrapped.cursor.style)
                     ELSE IF c - 1 \in x + 1 .. x + width - 1
                     THEN into_reference(@[c], c - 1 - x)
                     ELSE @[c]],
               !.touched = @ \cup {<<x, y>>}]
    IN  IF ~changed THEN CursorTravel(wrapped, Right(width))
        ELSE IF x + width - 1 > Cols - 1 THEN Panic(wrapped)
        ELSE CursorTravel(written, Right(width))

\* the wrap of Control::None(string): a grapheme that overflows the area
WrapDown(t) == CursorTravel(CursorTravel(t, Down(1)), Position(<<1>>, <<>>))

PutGrapheme(t, ch) ==
    WriteGrapheme(IF t.cursor.x + Width(ch) > Cols THEN WrapDown(t) ELSE t, ch)

\* Control::None(string)
RECURSIVE PutString(_, _)
PutString(t, string) ==
    IF string = <<>> \/ t.panic THEN t
    ELSE PutString(PutGrapheme(t, Head(string)), Tail(string))

\* one SGR attribute applied to a style
SgrApply(style, attr) ==
    CASE attr.sgr = "Reset" -> DefaultStyle
      [] attr.sgr = "Normal" ->
           [style EXCEPT !.attributes = @ \ {"BOLD", "FAINT"}]
      [] attr.sgr = "Bold" ->
           [style EXCEPT !.attributes = (@ \ {"FAINT"}) \cup {"BOLD"}]
      [] attr.sgr = "Faint" ->
           [style EXCEPT !.attributes = (@ \ {"BOLD"}) \cup {"FAINT"}]
      [] attr.sgr \in {"Italic", "Underline", "Blink", "Reverse",
                       "Invisible", "Struck"} ->
           LET bit == CASE attr.sgr = "Italic" -> "ITALIC"
                        [] attr.sgr = "Underline" -> "UNDERLINE"
                        [] attr.sgr = "Blink" -> "BLINK"
                        [] attr.sgr = "Reverse" -> "REVERSE"
                        [] attr.sgr = "Invisible" -> "INVISIBLE"
                        [] attr.sgr = "Struck" -> "STRUCK"
           IN  [style EXCEPT !.attributes =
                  IF attr.on THEN @ \cup {bit} ELSE @ \ {bit}]
      [] attr.sgr = "Foreground" ->
           [style EXCEPT !.foreground = <<to_rgba(attr.color, TRUE)>>]
      [] attr.sgr = "Background" ->
           [style EXCEPT !.background = <<to_rgba(attr.color, FALSE)>>]

\* a fold that applies the attributes from the last to the first
RECURSIVE SgrFoldRightToLeft(_, _)
SgrFoldRightToLeft(style, attrs) ==
    IF attrs = <<>> THEN style
    ELSE SgrApply(SgrFoldRightToLeft(style, Tail(attrs)), Head(attrs))

RECURSIVE SgrFold(_, _)
SgrFold(style, attrs) ==
    IF attrs = <<>> THEN style
    ELSE SgrFold(SgrApply(style, Head(attrs)), Tail(attrs))

\* CSI::SelectGraphicalRendition(attrs)
SelectGraphicalRendition(t, attrs) ==
    [t EXCEPT !.cursor.style = SgrFold(t.cursor.style, attrs)]

\* DECSCUSR, CSI::Unknown(b'q', Some(b' '), args)
CursorStyle(t, args) ==
    LET code == IF args = <<>> \/ args[1] < 0 THEN 0 ELSE args[1]
    IN  CASE code \in {0, 1} -> [t EXCEPT !.cursor.blink = TRUE, !.cursor.shape = "Block"]
          [] code = 2 -> [t EXCEPT !.cursor.blink = FALSE, !.cursor.shape = "Block"]
          [] code = 3 -> [t EXCEPT !.cursor.blink = TRUE, !.cursor.shape = "Line"]
          [] code = 4 -> [t EXCEPT !.cursor.blink = FALSE, !.cursor.shape = "Line"]
          [] code = 5 -> [t EXCEPT !.cursor.blink = TRUE, !.cursor.shape = "Beam"]
          [] code = 6 -> [t EXCEPT !.cursor.blink = FALSE, !.cursor.shape = "Beam"]
          [] OTHER -> t

\* C1::OperatingSystemCommand(cmd): cmd is the command split at ':' or ';'
OperatingSystemCommand(t, cmd) ==
    IF cmd[1] = "cursor"
    THEN CASE Len(cmd) > 1 /\ cmd[2] = "show" -> [t EXCEPT !.cursor.visible = TRUE]
           [] Len(cmd) > 1 /\ cmd[2] = "hide" -> [t EXCEPT !.cursor.visible = FALSE]
           [] Len(cmd) > 1 /\ cmd[2] = "background" ->
                [t EXCEPT !.cursor.background =
                   IF Len(cmd) > 2 THEN cmd[3] ELSE "config"]
           [] OTHER -> t
    ELSE IF cmd[1] \in {"0", "k"}
    THEN [t EXCEPT !.actions = Append(@, <<"Title", cmd[2]>>)]
    ELSE t

\* the body of the loop of Terminal::handle after control::parse returned
\* Done(rest, item): [t, input] is the terminal and the input left
Dispatch(t, item, input) ==
    LET same(u) == [t |-> u, input |-> input]
    IN  CASE item.k = "C0" ->
               CASE item.name = "Escape" -> Escape(t, input)
                 [] item.name = "CarriageReturn" ->
                      same(CursorTravel(t, Position(<<0>>, <<>>)))
                 [] item.name = "LineFeed" -> same(CursorTravel(t, Down(1)))
                 [] item.name = "Backspace" -> same(CursorTravel(t, Left(1)))
                 [] OTHER -> same(t)
          [] item.k = "NextLine" ->
               same(CursorTravel(CursorTravel(t, Down(1)), Position(<<0>>, <<>>)))
          [] item.k = "None" -> same(PutString(t, item.string))
          [] item.k = "OSC" -> same(OperatingSystemCommand(t, item.cmd))
          [] item.k = "CSI" ->
               CASE item.name = "DeviceAttributes" ->
                      same(IF item.n = 0 THEN DeviceAttributes(t) ELSE t)
                 [] item.name = "Set" -> same(SetModes(t, item.modes))
                 [] item.name = "Reset" -> same(ResetModes(t, item.modes))
                 [] item.name = "Private" ->
                      same(CASE item.final = "h" -> PrivateSet(t, item.args)
                             [] item.final = "l" -> PrivateReset(t, item.args)
                             [] OTHER -> t)
                 [] item.name = "SaveCursor" -> same(SaveCursor(t))
                 [] item.name = "RestoreCursor" -> same(RestoreCursor(t))
                 [] item.name = "CursorPosition" ->
                      same(CursorTravel(t, Position(<<item.x>>, <<item.y>>)))
                 [] item.name = "CursorUp" -> same(CursorTravel(t, Up(item.n)))
                 [] item.name = "CursorDown" -> same(CursorTravel(t, Down(item.n)))
                 [] item.name = "CursorBack" -> same(CursorTravel(t, Left(item.n)))
                 [] item.name = "CursorForward" -> same(CursorTravel(t, Right(item.n)))
                 [] item.name = "LinePosition" ->
                      same(CursorTravel(t, Position(<<>>, <<item.n>>)))
                 [] item.name = "EraseDisplay" -> same(EraseDisplay(t, item.erase))
                 [] item.name = "EraseLine" -> same(EraseLine(t, item.erase))
                 [] item.name = "DeleteLine" -> same(DeleteLine(t, item.n))
                 [] item.name = "InsertLine" -> same(InsertLine(t, item.n))
                 [] item.name = "SelectGraphicalRendition" ->
                      same(SelectGraphicalRendition(t, item.attrs))
                 [] item.name = "Unknown" ->
                      same(IF item.final = "q" /\ item.intermediate = " "
                           THEN CursorStyle(t, item.args) ELSE t)
                 [] OTHER -> same(t)
          [] OTHER -> same(t)

----------------------------------------------------------------------------
(* control::parse: Done(rest, item), Incomplete or Error.                  *)

Done(rest, item) == [r |-> "Done", rest |-> rest, item |-> item]
Incomplete == [r |-> "Incomplete"]
Error == [r |-> "Error"]

\* the length of the longest prefix of s made of elements of S
PrefixLen(s, S) ==
    CHOOSE n \in 0 .. Len(s) :
        /\ \A i \in 1 .. n : s[i] \in S
        /\ n = Len(s) \/ s[n + 1] \notin S

Digits == 48 .. 57
ParameterBytes == 48 .. 63
IntermediateBytes == 32 .. 47
FinalBytes == 64 .. 126
\* the bytes of a raw text run: printable bytes, UTF-8 bytes and the wide
\* grapheme's unit
TextBytes == (32 .. 255) \cup {Wide}

RECURSIVE Number(_, _)
Number(digits, acc) ==
    IF digits = <<>> THEN acc
    ELSE Number(Tail(digits), acc * 10 + (Head(digits) - 48))

\* the parameters between ';' bytes, -1 for one left out
RECURSIVE Parameters(_)
Parameters(bytes) ==
    LET n == PrefixLen(bytes, Digits)
        first == IF n = 0 THEN -1 ELSE Number(SubSeq(bytes, 1, n), 0)
    IN  IF n = Len(bytes) THEN (IF bytes = <<>> THEN <<>> ELSE <<first>>)
        ELSE <<first>> \o
             (IF n + 1 = Len(bytes) THEN <<-1>>
              ELSE Parameters(SubSeq(bytes, n + 2, Len(bytes))))

Arg(args, i, default) ==
    IF Len(args) >= i /\ args[i] >= 0 THEN args[i] ELSE default

EraseOf(n) ==
    CASE n = 0 -> "ToEnd" [] n = 1 -> "ToStart" [] n = 2 -> "All" [] OTHER -> "Error"

CsiModeOf(n) ==
    CASE n = 2 -> "KeyboardAction"
      [] n = 4 -> "InsertionReplacement"
      [] n = 12 -> "SendReceive"
      [] n = 20 -> "LineFeed"
      [] OTHER -> "Other"

\* the SGR attribute of one parameter; the parameters drawn are the ones
\* listed here
SgrOf(n) ==
    CASE n \in {-1, 0} -> SgrReset
      [] n = 1 -> Sgr("Bold", TRUE, 0)
      [] n = 2 -> Sgr("Faint", TRUE, 0)
      [] n = 22 -> Sgr("Normal", TRUE, 0)
      [] n \in {3, 23} -> Sgr("Italic", n = 3, 0)
      [] n \in {4, 24} -> Sgr("Underline", n = 4, 0)
      [] n \in {5, 25} -> Sgr("Blink", n = 5, 0)
      [] n \in {7, 27} -> Sgr("Reverse", n = 7, 0)
      [] n \in {8, 28} -> Sgr("Invisible", n = 8, 0)
      [] n \in {9, 29} -> Sgr("Struck", n = 9, 0)
      [] n \in 30 .. 37 -> SgrForeground(n - 30)
      [] n = 39 -> SgrForeground(ColorDefault)
      [] n \in 40 .. 47 -> SgrBackground(n - 40)
      [] n = 49 -> SgrBackground(ColorDefault)

SgrParameters ==
    {-1, 0, 1, 2, 22, 3, 23, 4, 24, 5, 25, 7, 27, 8, 28, 9, 29, 39, 49}
        \cup (30 .. 37) \cup (40 .. 47)

\* the CSI item of a complete sequence ESC [ params intermediates final,
\* args being its numeric parameters; <<>> when there is none
CsiItemOf(private, args, intermediates, final) ==
    IF intermediates # <<>>
    THEN (IF intermediates = <<32>> /\ final = 113
          THEN <<CsiUnknown("q", " ", args)>>
          ELSE <<CsiUnknown("?", "?", args)>>)
    ELSE IF private
    THEN (CASE final = 104 -> <<CsiPrivate("h", args)>>
            [] final = 108 -> <<CsiPrivate("l", args)>>
            [] OTHER -> <<CsiUnknown("?", "", args)>>)
    ELSE CASE final = 65 -> <<CsiN("CursorUp", Arg(args, 1, 1))>>
           [] final = 66 -> <<CsiN("CursorDown", Arg(args, 1, 1))>>
           [] final = 67 -> <<CsiN("CursorForward", Arg(args, 1, 1))>>
           [] final = 68 -> <<CsiN("CursorBack", Arg(args, 1, 1))>>
           [] final = 72 ->
                <<CsiPosition(Max(Arg(args, 2, 1), 1) - 1,
                              Max(Arg(args, 1, 1), 1) - 1)>>
           [] final = 100 ->
                <<CsiN("LinePosition", Max(Arg(args, 1, 1), 1) - 1)>>
           [] final = 74 ->
                IF Arg(args, 1, 0) > 2 THEN <<>>
                ELSE <<CsiErase("EraseDisplay", EraseOf(Arg(args, 1, 0)))>>
           [] final = 75 ->
                IF Arg(args, 1, 0) > 2 THEN <<>>
                ELSE <<CsiErase("EraseLine", EraseOf(Arg(args, 1, 0)))>>
           [] final = 76 -> <<CsiN("InsertLine", Arg(args, 1, 1))>>
           [] final = 77 -> <<CsiN("DeleteLine", Arg(args, 1, 1))>>
           [] final = 99 -> <<CsiN("DeviceAttributes", Arg(args, 1, 0))>>
           [] final = 104 ->
                <<CsiModes("Set", [i \in 1 .. Len(args) |-> CsiModeOf(args[i])])>>
           [] final = 108 ->
                <<CsiModes("Reset", [i \in 1 .. Len(args) |-> CsiModeOf(args[i])])>>
           [] final = 115 -> <<CsiItem("SaveCursor")>>
           [] final = 117 -> <<CsiItem("RestoreCursor")>>
           [] final = 109 ->
                IF \E i \in 1 .. Len(args) : args[i] \notin SgrParameters
                THEN <<>>
                ELSE IF args = <<>> THEN <<CsiSgr(<<SgrReset>>)>>
                ELSE <<CsiSgr([i \in 1 .. Len(args) |-> SgrOf(args[i])])>>
           [] OTHER -> <<CsiUnknown("?", "", args)>>

CsiDecode(params, intermediates, final) ==
    IF params # <<>> /\ params[1] = 63
    THEN CsiItemOf(TRUE, Parameters(Tail(params)), intermediates, final)
    ELSE CsiItemOf(FALSE, Parameters(params), intermediates, final)

CsiResult(item, rest) == IF item = <<>> THEN Error ELSE Done(rest, item[1])

\* ESC [ params intermediates final, cut at np parameter bytes and ni
\* intermediate bytes
CsiCut(body, np, ni) ==
    IF np + ni = Len(body) THEN Incomplete
    ELSE IF body[np + ni + 1] \notin FinalBytes
            \/ \E i \in 1 .. np :
                  body[i] \notin Digits \cup {59} /\ ~(i = 1 /\ body[i] = 63)
    THEN Error
    ELSE CsiResult(CsiDecode(SubSeq(body, 1, np), SubSeq(body, np + 1, np + ni),
                             body[np + ni + 1]),
                   SubSeq(body, np + ni + 2, Len(body)))

CsiBody(body, np) ==
    CsiCut(body, np, PrefixLen(SubSeq(body, np + 1, Len(body)), IntermediateBytes))

\* ESC [ ...
ParseCsi(input) ==
    CsiBody(SubSeq(input, 3, Len(input)),
            PrefixLen(SubSeq(input, 3, Len(input)), ParameterBytes))

\* the command of an OSC payload, split at ':' or ';'
OscCommand(payload) ==
    CASE payload = <<99, 117, 114, 115, 111, 114, 58, 115, 104, 111, 119>> ->
           <<"cursor", "show">>
      [] payload = <<99, 117, 114, 115, 111, 114, 58, 104, 105, 100, 101>> ->
           <<"cursor", "hide">>
      [] Len(payload) >= 2 /\ payload[1] = 48 /\ payload[2] = 59 ->
           <<"0", "title">>
      [] OTHER -> <<"other">>

\* ESC ] payload BEL, the payload being n bytes
OscCut(body, n) ==
    IF n = Len(body) THEN Incomplete
    ELSE IF body[n + 1] # 7 THEN Error
    ELSE Done(SubSeq(body, n + 2, Len(body)),
              OscItem(OscCommand(SubSeq(body, 1, n))))

ParseOsc(input) ==
    OscCut(SubSeq(input, 3, Len(input)),
           PrefixLen(SubSeq(input, 3, Len(input)), TextBytes))

\* a raw text run of n bytes
TextRun(input, n) ==
    Done(SubSeq(input, n + 1, Len(input)), TextItem(SubSeq(input, 1, n)))

\* control::parse, called on a non-empty input
Parse(input) ==
    LET b == input[1]
    IN  IF b = ESC
        THEN IF Len(input) = 1 THEN Incomplete
             ELSE CASE input[2] = 91 -> ParseCsi(input)
                    [] input[2] = 93 -> ParseOsc(input)
                    [] input[2] = 69 ->
                         Done(SubSeq(input, 3, Len(input)), NextLineItem)
                    [] input[2] \in 64 .. 95 ->
                         Done(SubSeq(input, 3, Len(input)), OtherItem)
                    [] OTHER -> Done(Tail(input), C0Item("Escape"))
        ELSE IF b \in 0 .. 31
        THEN Done(Tail(input),
                  C0Item(CASE b = 8 -> "Backspace"
                           [] b = 10 -> "LineFeed"
                           [] b = 13 -> "CarriageReturn"
                           [] OTHER -> "Other"))
        ELSE TextRun(input, PrefixLen(input, TextBytes))

----------------------------------------------------------------------------
(* Terminal::handle and Terminal::key                                      *)

\* the loop of Terminal::handle over the input left; p is what
\* control::parse returned for it
RECURSIVE Loop(_, _)
LoopOn(d) == Loop(d.t, d.input)

\* a loop that keeps the input it could not parse for the next call
LoopStepKeepingError(t, input, p) ==
    CASE p.r = "Error" -> [t EXCEPT !.cache = input]
      [] p.r = "Incomplete" -> [t EXCEPT !.cache = input]
      [] p.r = "Done" -> LoopOn(Dispatch(t, p.item, p.rest))

LoopStep(t, input, p) ==
    CASE p.r = "Error" -> t
      [] p.r = "Incomplete" -> [t EXCEPT !.cache = input]
      [] p.r = "Done" -> LoopOn(Dispatch(t, p.item, p.rest))

Loop(t, input) ==
    IF input = <<>> \/ t.panic THEN t
    ELSE LoopStep(t, input, Parse(input))

\* the end of a call that began in t and came to end: a panic aborts the
\* process in the state it had when the call began; otherwise the touched
\* coordinates are returned
Return(t, end) ==
    IF end.panic THEN [t EXCEPT !.panic = TRUE] ELSE TouchedIter(end)

\* Terminal::handle(input, output): output and actions hold what this call
\* wrote and returned, dirty the coordinates it returned
Handle(t, input) ==
    Return(t, Loop([t EXCEPT !.cache = <<>>, !.output = <<>>, !.actions = <<>>],
                   t.cache \o input))

ItemDone(d) == d.t

\* Terminal::handle on an input that parses to one complete item
HandleItem(t, item) ==
    Return(t, ItemDone(Dispatch([t EXCEPT !.output = <<>>, !.actions = <<>>],
                                item, <<>>)))

\* Key::write(mode, output): the bytes of a key under the modes
KeyWrite(key, mode) ==
    CASE key = "Up" ->
           IF "APPLICATION_CURSOR" \in mode THEN <<ESC, 79, 65>> ELSE <<ESC, 91, 65>>
      [] key = "Enter" ->
           IF "CRLF" \in mode THEN <<13, 10>> ELSE <<13>>
      [] OTHER -> <<Narrow>>

\* a key() that does not look at KEYBOARD_LOCK
KeyIgnoringLock(t, key) ==
    [t EXCEPT !.output = KeyWrite(key, t.mode), !.dirty = {}, !.actions = <<>>]

\* Terminal::key(key, output)
Key(t, key) ==
    IF "KEYBOARD_LOCK" \notin t.mode
    THEN [t EXCEPT !.output = KeyWrite(key, t.mode), !.dirty = {}, !.actions = <<>>]
    ELSE [t EXCEPT !.output = <<>>, !.dirty = {}, !.actions = <<>>]

----------------------------------------------------------------------------
(* The renderer's Cache: a grid of snapshots and an LRU map of glyphs.     *)

\* cache::Cell { style, value, valid }
Snapshot(style, value, valid) == [style |-> style, value |-> value, valid |-> valid]

\* cache::Cell::empty
CellEmpty(style) == Snapshot(style, <<>>, TRUE)

\* Glyph::new: the key of a shaped glyph
Glyph(value, attrs) ==
    [value |-> value, attrs |-> attrs \cap {"BOLD", "FAINT", "ITALIC"}]

\* Computed { font, shape } for a glyph
Computed(glyph) == [font |-> <<glyph.value, glyph.attrs>>, shape |-> glyph]

\* Cache::new(capacity, font, width, height); glyphs lists the entries of
\* the LruCache from the least to the most recently used
CacheNew(capacity, width, height) ==
    [width |-> width, height |-> height,
     inner |-> [i \in 1 .. width * height |-> CellEmpty(DefaultStyle)],
     capacity |-> capacity, glyphs |-> <<>>]

\* Cache::resize
Resize(c, width, height) ==
    [c EXCEPT !.width = width, !.height = height,
              !.inner = [i \in 1 .. width * height |-> CellEmpty(DefaultStyle)]]

\* the index of the snapshot of (x, y)
InnerIndex(c, x, y) == y * c.width + x + 1

\* Cache::invalidate
Invalidate(c, x, y) == [c EXCEPT !.inner[InnerIndex(c, x, y)].valid = FALSE]

\* the test of Cache::update: the snapshot is up to date with the live cell
UpToDate(snapshot, cell) ==
    /\ snapshot.valid
    /\ cell.style = snapshot.style
    /\ \/ cell.tag = "Empty" /\ snapshot.value = <<>>
       \/ cell.tag = "Occupied" /\ snapshot.value = <<cell.value>>

\* an update that takes a stale snapshot for an up to date one
UpdateIgnoringValid(c, x, y, cell) ==
    IF UpToDate([c.inner[InnerIndex(c, x, y)] EXCEPT !.valid = TRUE], cell)
    THEN [cache |-> c, returned |-> FALSE]
    ELSE [cache |-> [c EXCEPT !.inner[InnerIndex(c, x, y)] =
                        Snapshot(cell.style,
                                 IF cell.tag = "Empty" THEN <<>> ELSE <<cell.value>>,
                                 TRUE)],
          returned |-> TRUE]

\* Cache::update: the cache after the call and the value returned
Update(c, x, y, cell) ==
    IF UpToDate(c.inner[InnerIndex(c, x, y)], cell)
    THEN [cache |-> c, returned |-> FALSE]
    ELSE [cache |-> [c EXCEPT !.inner[InnerIndex(c, x, y)] =
                        Snapshot(cell.style,
                                 IF cell.tag = "Empty" THEN <<>> ELSE <<cell.value>>,
                                 TRUE)],
          returned |-> TRUE]

\* the position of key in the LruCache, 0 when it holds no such entry
LruIndex(glyphs, key) ==
    IF \E i \in 1 .. Len(glyphs) : glyphs[i].key = key
    THEN CHOOSE i \in 1 .. Len(glyphs) : glyphs[i].key = key
    ELSE 0

\* glyphs without its entry at position i
LruWithout(glyphs, i) == SubSeq(glyphs, 1, i - 1) \o SubSeq(glyphs, i + 1, Len(glyphs))

\* LruCache::get_mut on a hit at position i: the entry becomes the most
\* recently used
LruGetMut(glyphs, i) == Append(LruWithout(glyphs, i), glyphs[i])

\* LruCache::insert of a key that is not held: the least recently used
\* entries are dropped while the cache is over its capacity
LruInsert(glyphs, capacity, key, value) ==
    LET grown == Append(glyphs, [key |-> key, value |-> value])
    IN  IF Len(grown) > capacity
        THEN SubSeq(grown, Len(grown) - capacity + 1, Len(grown))
        ELSE grown

\* a compute whose hits leave the order of the entries alone
ComputeWithoutRefresh(c, string, attrs) ==
    IF LruIndex(c.glyphs, Glyph(string, attrs)) # 0
    THEN [cache |-> c,
          computed |-> c.glyphs[LruIndex(c.glyphs, Glyph(string, attrs))].value]
    ELSE [cache |-> [c EXCEPT !.glyphs =
                        LruInsert(@, c.capacity, Glyph(string, attrs),
                                  Computed(Glyph(string, attrs)))],
          computed |-> Computed(Glyph(string, attrs))]

\* Cache::compute: the cache after the call and the Computed returned
Compute(c, string, attrs) ==
    IF LruIndex(c.glyphs, Glyph(string, attrs)) # 0
    THEN [cache |-> [c EXCEPT !.glyphs =
                        LruGetMut(@, LruIndex(c.glyphs, Glyph(string, attrs)))],
          computed |-> c.glyphs[LruIndex(c.glyphs, Glyph(string, attrs))].value]
    ELSE [cache |-> [c EXCEPT !.glyphs =
                        LruInsert(@, c.capacity, Glyph(string, attrs),
                                  Computed(Glyph(string, attrs)))],
          computed |-> Computed(Glyph(string, attrs))]

----------------------------------------------------------------------------
(* Control::None on a terminal of any width: the columns one grapheme is   *)
(* written to.                                                             *)

\* the cursor column after the wrap test: a grapheme of width w at column x
\* of a terminal cols wide that overflows is taken to column 1, which
\* Cursor::travel clamps to the area
EmitColumn(cols, x, w) == IF x + w > cols THEN Min(cols - 1, 1) ELSE x

\* whether the cell under the cursor counts as changed: an Empty cell
\* does, an Occupied one when its value or style differs, a Reference
\* never
EmitChanged(under) == under \in {"Empty", "OccupiedOther"}

\* the columns written: the Occupied base and the w - 1 References after
\* it, when the cell under the cursor counts as changed
EmitCells(cols, x, w, changed) ==
    IF changed
    THEN {EmitColumn(cols, x, w)}
            \cup (EmitColumn(cols, x, w) + 1 .. EmitColumn(cols, x, w) + w - 1)
    ELSE {}

----------------------------------------------------------------------------
(* Sixel: the tile grid an image is drawn into.                            *)

\* Sixel::new(header, background, width, height); grid lists, for every
\* tile row, the number of tiles it holds; aspect is raster.aspect.0 and
\* background raster.background
SixelNew(aspect, background, width, height) ==
    [aspect |-> aspect, background |-> background, grid |-> <<>>,
     width |-> width, height |-> height, x |-> 0, y |-> 0,
     colors |-> {}, color |-> 0, calls |-> 0, panic |-> FALSE]

\* Sixel::aspect
SixelAspect(s, aspect) == [s EXCEPT !.aspect = aspect]

\* Sixel::enable
SixelEnable(s, id) == [s EXCEPT !.color = id]

\* Sixel::define
SixelDefine(s, id) == [s EXCEPT !.colors = @ \cup {id}]

\* Sixel::start
SixelStart(s) == [s EXCEPT !.x = 0]

\* Sixel::next
SixelNext(s) == [s EXCEPT !.x = 0, !.y = @ + 6 * s.aspect]

\* self.grid[y][x].set(..): an index after the last tile of the row panics
SetPixel(s, write, x, y) ==
    IF write /\ x >= s.grid[y + 1] THEN [s EXCEPT !.panic = TRUE] ELSE s

\* if x >= self.grid[y].len() { push }: an index after the last tile row
\* panics
PushTile(s, write, x, y) ==
    IF y >= Len(s.grid) THEN [s EXCEPT !.panic = TRUE]
    ELSE SetPixel(IF x >= s.grid[y + 1] THEN [s EXCEPT !.grid[y + 1] = @ + 1] ELSE s,
                  write, x, y)

\* if y >= self.grid.len() { push }
PushRow(s, write, x, y) ==
    PushTile(IF y >= Len(s.grid) THEN [s EXCEPT !.grid = Append(@, 0)] ELSE s,
             write, x, y)

\* the body of the loop of Sixel::draw for the k-th pixel row of the band
DrawPixel(s, value, k) ==
    PushRow(s, (k \div s.aspect) \in value \/ s.background,
            s.x \div s.width, (s.y + k) \div s.height)

\* the loop of Sixel::draw from the k-th pixel row of the band on
RECURSIVE DrawFrom(_, _, _)
DrawFrom(s, value, k) ==
    IF s.panic \/ k >= 6 * s.aspect THEN s
    ELSE DrawFrom(DrawPixel(s, value, k), value, k + 1)

\* self.x += 1
DrawEnd(s) == IF s.panic THEN s ELSE [s EXCEPT !.x = @ + 1]

\* Sixel::draw(value), value being the set of the bits set in the map
SixelDraw(s, value) == DrawEnd(DrawFrom(s, value, 0))

----------------------------------------------------------------------------
(* The state machine.                                                      *)

VARIABLES
    term,    \* the Terminal, with what its last call wrote and returned
    last,    \* the last call: its operation, its parameter, the cursor before it
    steps,   \* calls made since open()
    snap,    \* the cursor when it was last saved, and what happened since
             \* (held: a save was made and no restore since; slot: the
             \* cursor at that save; restores: restores since that save)
    kam,     \* the most recently handled of CSI 2h ("h") and CSI 2l ("l")
    whole,   \* a Terminal that is fed every byte stream as it is
    parts,   \* a Terminal that is fed the same byte streams in two halves, or
             \* only the items of them that precede a sequence parse() rejects
    feeds,   \* byte streams fed to whole and parts
    renderer, \* the renderer's Cache
    hist,    \* the last call on the Cache and what the calls so far did
    emit,    \* one grapheme written on a terminal of some width
    sixel    \* the Sixel image being drawn

vars ==
    <<term, last, steps, snap, kam, whole, parts, feeds, renderer, hist, emit, sixel>>

Init ==
    /\ term = Open
    /\ last = [op |-> "open", n |-> 0, x |-> 0, y |-> 0]
    /\ steps = 0
    /\ snap = [phase |-> "none", cursor |-> NewCursor, moved |-> FALSE, grew |-> FALSE,
               held |-> FALSE, slot |-> NewCursor, restores |-> 0]
    /\ kam = "none"
    /\ whole = Open
    /\ parts = Open
    /\ feeds = 0
    /\ renderer = CacheNew(Capacity, CacheWidth, CacheHeight)
    /\ hist = [op |-> "new", x |-> 0, y |-> 0, cell |-> Empty(DefaultStyle),
               returned |-> FALSE, before |-> CellEmpty(DefaultStyle),
               calls |-> 0, hits |-> 0, seen |-> {}, used |-> {}, evicted |-> {}]
    /\ emit = [cols |-> Cols, x |-> 0, w |-> 1, under |-> "Reference", cells |-> {}]
    /\ sixel = SixelNew(1, FALSE, 1, 1)

MoveOps ==
    {"CarriageReturn", "LineFeed", "Backspace", "CursorPosition", "CursorUp",
     "CursorDown", "CursorBack", "CursorForward", "LinePosition"}

\* one call of handle() or key() that leaves the terminal t2
Step(t2, op, n) ==
    /\ ~term.panic
    /\ steps < MaxSteps
    /\ Len(t2.rows) <= MaxLen
    /\ term' = t2
    /\ last' = [op |-> op, n |-> n, x |-> term.cursor.x, y |-> term.cursor.y]
    /\ steps' = steps + 1
    /\ snap' = IF t2.panic THEN snap
               ELSE CASE op \in {"DECSC", "SaveCursor"} ->
                           [phase |-> "saved", cursor |-> term.cursor,
                            moved |-> FALSE, grew |-> FALSE,
                            held |-> TRUE, slot |-> term.cursor, restores |-> 0]
                      [] op \in {"DECRC", "RestoreCursor"} ->
                           [snap EXCEPT !.phase =
                              IF @ = "saved" THEN "restored" ELSE "none",
                              !.held = FALSE,
                              !.restores = @ + 1]
                      [] op \in MoveOps ->
                           [snap EXCEPT
                              !.phase = IF @ = "saved" THEN "saved" ELSE "none",
                              !.moved = @ \/ t2.cursor # snap.cursor,
                              !.grew = @ \/ Len(t2.rows) > Len(term.rows)]
                      [] OTHER -> [snap EXCEPT !.phase = "none"]
    /\ kam' = CASE op = "SetKeyboardAction" -> "h"
                [] op = "ResetKeyboardAction" -> "l"
                [] OTHER -> kam
    /\ UNCHANGED <<whole, parts, feeds, renderer, hist, emit, sixel>>

\* ---- raw text and C0 ----

Text ==
    \E ch \in {Narrow, Wide} :
        Step(HandleItem(term, TextItem(<<ch>>)), "Text", ch)

CarriageReturn ==
    Step(HandleItem(term, C0Item("CarriageReturn")), "CarriageReturn", 0)

LineFeed == Step(HandleItem(term, C0Item("LineFeed")), "LineFeed", 0)

Backspace == Step(HandleItem(term, C0Item("Backspace")), "Backspace", 0)

NextLine == Step(HandleItem(term, NextLineItem), "NextLine", 0)

\* ---- ESC sequences ----

DECALN == Step(Handle(term, <<ESC, 35, 56>>), "DECALN", 0)

DECBI == Step(Handle(term, <<ESC, 35, 54>>), "DECBI", 0)

DECFI == Step(Handle(term, <<ESC, 35, 57>>), "DECFI", 0)

DECSC == Step(Handle(term, <<ESC, 55>>), "DECSC", 0)

DECRC == Step(Handle(term, <<ESC, 56>>), "DECRC", 0)

DECKPAM == Step(Handle(term, <<ESC, 61>>), "DECKPAM", 0)

DECKPNM == Step(Handle(term, <<ESC, 62>>), "DECKPNM", 0)

\* ---- CSI: cursor ----

CursorPosition ==
    \E x \in 0 .. Cols - 1, y \in 0 .. Rows - 1 :
        Step(HandleItem(term, CsiPosition(x, y)), "CursorPosition", 0)

CursorUp == Step(HandleItem(term, CsiN("CursorUp", 1)), "CursorUp", 1)

CursorDown ==
    \E n \in 1 .. 2 : Step(HandleItem(term, CsiN("CursorDown", n)), "CursorDown", n)

CursorBack == Step(HandleItem(term, CsiN("CursorBack", 1)), "CursorBack", 1)

CursorForward ==
    Step(HandleItem(term, CsiN("CursorForward", 1)), "CursorForward", 1)

LinePosition ==
    \E y \in 0 .. Rows - 1 :
        Step(HandleItem(term, CsiN("LinePosition", y)), "LinePosition", y)

SaveCursorCsi == Step(HandleItem(term, CsiItem("SaveCursor")), "SaveCursor", 0)

RestoreCursorCsi ==
    Step(HandleItem(term, CsiItem("RestoreCursor")), "RestoreCursor", 0)

\* ---- CSI: erase, insert, delete ----

EraseKinds == {"ToEnd", "ToStart", "All"}

EraseDisplayCsi ==
    \E e \in EraseKinds :
        Step(HandleItem(term, CsiErase("EraseDisplay", e)), "EraseDisplay" \o e, 0)

EraseLineCsi ==
    \E e \in EraseKinds :
        Step(HandleItem(term, CsiErase("EraseLine", e)), "EraseLine" \o e, 0)

DeleteLineCsi ==
    \E n \in 0 .. Rows :
        Step(HandleItem(term, CsiN("DeleteLine", n)), "DeleteLine", n)

InsertLineCsi ==
    \E n \in 0 .. Rows :
        Step(HandleItem(term, CsiN("InsertLine", n)), "InsertLine", n)

\* ---- CSI: modes, attributes, style ----

SetMode ==
    \/ Step(HandleItem(term, CsiModes("Set", <<"KeyboardAction">>)),
            "SetKeyboardAction", 0)
    \/ Step(HandleItem(term, CsiModes("Set", <<"LineFeed">>)), "SetLineFeed", 0)

ResetMode ==
    \/ Step(HandleItem(term, CsiModes("Reset", <<"KeyboardAction">>)),
            "ResetKeyboardAction", 0)
    \/ Step(HandleItem(term, CsiModes("Reset", <<"LineFeed">>)), "ResetLineFeed", 0)

PrivateArgs == {1, 7, 25}

PrivateH ==
    \E a \in PrivateArgs : Step(HandleItem(term, CsiPrivate("h", <<a>>)), "PrivateH", a)

PrivateL ==
    \E a \in PrivateArgs : Step(HandleItem(term, CsiPrivate("l", <<a>>)), "PrivateL", a)

\* WRAP alone, for the specification of the grid
WrapH == Step(HandleItem(term, CsiPrivate("h", <<7>>)), "PrivateH", 7)

WrapL == Step(HandleItem(term, CsiPrivate("l", <<7>>)), "PrivateL", 7)

DeviceAttributesCsi ==
    \E n \in 0 .. 1 :
        Step(HandleItem(term, CsiN("DeviceAttributes", n)), "DeviceAttributes", n)

SgrInputs == {<<SgrForeground(1)>>, <<SgrReset>>}

SelectGraphicalRenditionCsi ==
    \E attrs \in SgrInputs :
        Step(HandleItem(term, CsiSgr(attrs)), "SelectGraphicalRendition", Len(attrs))

DECSCUSR ==
    \E code \in {2, 3} :
        Step(HandleItem(term, CsiUnknown("q", " ", <<code>>)), "DECSCUSR", code)

Osc ==
    \/ Step(HandleItem(term, OscItem(<<"cursor", "show">>)), "OscCursorShow", 0)
    \/ Step(HandleItem(term, OscItem(<<"cursor", "hide">>)), "OscCursorHide", 0)
    \/ Step(HandleItem(term, OscItem(<<"0", "title">>)), "OscTitle", 0)

\* ---- key() ----

KeyPress ==
    \/ Step(Key(term, "Up"), "key", 1)
    \/ Step(Key(term, "Enter"), "key", 2)

\* ---- byte streams, whole and in two halves ----

Chunks ==
    {<<ESC, 55>>, <<ESC, 56>>, <<ESC, 35, 56>>, <<ESC, 35, 54>>,
     <<ESC, 91, 67>>, <<ESC, 91, 50, 59, 50, 72>>, <<ESC, 91, 63, 55, 108>>,
     <<ESC, 91, 49, 109>>, <<ESC, 69>>, <<10>>, <<Narrow>>, <<Wide>>}

Streams == Chunks \cup {a \o b : a \in Chunks, b \in Chunks}

\* one byte stream fed: w2 and p2 are the two terminals after it
Fed(w2, p2) ==
    /\ feeds < MaxFeeds
    /\ ~w2.panic /\ ~p2.panic
    /\ Len(w2.rows) <= MaxLen /\ Len(p2.rows) <= MaxLen
    /\ whole' = w2
    /\ parts' = p2
    /\ feeds' = feeds + 1
    /\ UNCHANGED <<term, last, steps, snap, kam, renderer, hist, emit, sixel>>

Feed ==
    \E S \in Streams :
        \E k \in 0 .. Len(S) :
            Fed(Handle(whole, S),
                Handle(Handle(parts, SubSeq(S, 1, k)), SubSeq(S, k + 1, Len(S))))

NextSplit == Feed

SpecSplit == Init /\ [][NextSplit]_vars

\* ---- byte streams with a sequence control::parse rejects ----

\* complete items that change grid, cursor and modes
Prefixes ==
    {<<>>, <<Narrow>>, <<Wide>>, <<10>>, <<Narrow, 13, 10>>, <<ESC, 35, 56>>,
     <<ESC, 91, 67>>, <<ESC, 91, 50, 59, 50, 72>>, <<ESC, 91, 63, 55, 108>>,
     <<ESC, 91, 50, 104>>, <<ESC, 91, 49, 109, Narrow>>, <<ESC, 55>>}

\* CSI 9 J (no such erase), CSI 99 m (no such attribute), CSI : H (no such
\* parameter byte)
Rejected == {<<ESC, 91, 57, 74>>, <<ESC, 91, 57, 57, 109>>, <<ESC, 91, 58, 72>>}

\* what follows the rejected sequence in the same buffer
Suffixes == {<<Narrow>>, <<10>>, <<ESC, 91, 63, 55, 108>>, <<ESC, 35, 56>>}

\* one stream fed: w2 is the terminal after it, p2 the terminal after the
\* items before the rejected sequence alone
FedError(w2, p2) ==
    /\ feeds < MaxFeeds
    /\ ~whole.panic
    /\ Len(w2.rows) <= MaxLen /\ Len(p2.rows) <= MaxLen
    /\ whole' = w2
    /\ parts' = p2
    /\ feeds' = feeds + 1
    /\ UNCHANGED <<term, last, steps, snap, kam, renderer, hist, emit, sixel>>

\* the rejected sequence arrives whole (k = 0), or its first k bytes end one
\* call and the rest begins the next
FeedError ==
    \E P \in Prefixes, B \in Rejected, S \in Suffixes :
        \E k \in 0 .. Len(B) - 1 :
            FedError(IF k = 0 THEN Handle(whole, P \o B \o S)
                     ELSE Handle(Handle(whole, P \o SubSeq(B, 1, k)),
                                 SubSeq(B, k + 1, Len(B)) \o S),
                     Handle(parts, P))

NextError == FeedError

SpecError == Init /\ [][NextError]_vars

\* ---- the renderer's snapshots: update, invalidate, resize ----

BoldStyle == [DefaultStyle EXCEPT !.attributes = {"BOLD"}]

\* the live cells handed to the Cache, as cell::Position
LiveCells ==
    {Empty(DefaultStyle), Empty(BoldStyle), Occupied(Narrow, DefaultStyle),
     Occupied(LetterE, DefaultStyle), Occupied(Narrow, BoldStyle)}

\* the sizes given to Cache::resize
Sizes == {<<CacheWidth, CacheHeight>>, <<CacheWidth, CacheHeight + 1>>}

\* one call on the snapshots that leaves the cache c2
CacheCall(c2, op, x, y, cell, returned) ==
    /\ hist.calls < MaxUpdates
    /\ renderer' = c2
    /\ hist' = [hist EXCEPT !.op = op, !.x = x, !.y = y, !.cell = cell,
                            !.returned = returned,
                            !.before = IF op = "resize" THEN @
                                       ELSE renderer.inner[InnerIndex(renderer, x, y)],
                            !.calls = @ + 1]
    /\ UNCHANGED <<term, last, steps, snap, kam, whole, parts, feeds, emit, sixel>>

Updated(u, x, y, cell) == CacheCall(u.cache, "update", x, y, cell, u.returned)

UpdateCell ==
    \E x \in 0 .. renderer.width - 1, y \in 0 .. renderer.height - 1 :
        \E cell \in LiveCells : Updated(Update(renderer, x, y, cell), x, y, cell)

InvalidateCell ==
    \E x \in 0 .. renderer.width - 1, y \in 0 .. renderer.height - 1 :
        CacheCall(Invalidate(renderer, x, y), "invalidate", x, y, hist.cell, FALSE)

ResizeCache ==
    \E size \in Sizes :
        CacheCall(Resize(renderer, size[1], size[2]), "resize", size[1], size[2],
                  hist.cell, FALSE)

NextCache ==
    \/ UpdateCell
    \/ InvalidateCell
    \/ ResizeCache

SpecCache == Init /\ [][NextCache]_vars

\* ---- the renderer's glyphs: compute ----

\* the strings and attributes given to Cache::compute
Strings == {Narrow, Wide, LetterE}
Attributes == {{}, {"BOLD"}, {"BOLD", "UNDERLINE"}}

\* the keys held by the LruCache
Keys(c) == {c.glyphs[i].key : i \in 1 .. Len(c.glyphs)}

\* one compute() call for key that returned r: it is a hit when the key was
\* held, and the entries no longer held were evicted
Computed2(r, key) ==
    /\ hist.calls < MaxComputes
    /\ renderer' = r.cache
    /\ hist' = [hist EXCEPT
                  !.op = "compute",
                  !.calls = @ + 1,
                  !.hits = IF key \in Keys(renderer) THEN @ + 1 ELSE @,
                  !.seen = @ \cup {key},
                  !.used = {u \in @ : u[1] # key} \cup {<<key, hist.calls + 1>>},
                  !.evicted = Keys(renderer) \ Keys(r.cache)]
    /\ UNCHANGED <<term, last, steps, snap, kam, whole, parts, feeds, emit, sixel>>

ComputeGlyph ==
    \E string \in Strings, attrs \in Attributes :
        Computed2(Compute(renderer, string, attrs),
                  [value |-> string, attrs |-> attrs \ {"UNDERLINE"}])

NextGlyphs == ComputeGlyph

SpecGlyphs == Init /\ [][NextGlyphs]_vars

\* ---- styles: SGR sequences and the text written under them ----

\* CSI 31 m, CSI 0 m, CSI 1 ; 31 m, CSI 31 ; 0 m, CSI 0 ; 4 m, CSI m
SgrStreams ==
    <<<<ESC, 91, 51, 49, 109>>,
      <<ESC, 91, 48, 109>>,
      <<ESC, 91, 49, 59, 51, 49, 109>>,
      <<ESC, 91, 51, 49, 59, 48, 109>>,
      <<ESC, 91, 48, 59, 52, 109>>,
      <<ESC, 91, 109>>>>

SgrStream ==
    \E i \in 1 .. Len(SgrStreams) : Step(Handle(term, SgrStreams[i]), "SGR", i)

NextStyle ==
    \/ Text
    \/ CarriageReturn
    \/ LineFeed
    \/ SgrStream

SpecStyle == Init /\ [][NextStyle]_vars

\* ---- text runs ----

\* a run of k narrow graphemes in one Control::None
NarrowRun ==
    \E k \in 1 .. Cols + 1 :
        Step(HandleItem(term, TextItem([i \in 1 .. k |-> Narrow])), "NarrowRun", k)

NextText ==
    \/ NarrowRun
    \/ Text
    \/ CarriageReturn
    \/ LineFeed
    \/ CursorPosition
    \/ WrapH
    \/ WrapL

SpecText == Init /\ [][NextText]_vars

\* ---- one grapheme on a terminal of any width ----

\* a grapheme of width w arrives with the cursor at column x of a terminal
\* cols wide, over a cell that is Empty, Occupied by the same grapheme in the
\* same style, Occupied by something else, or a Reference
Emit ==
    \E cols \in 1 .. MaxCols :
        \E x \in 0 .. cols - 1, w \in 0 .. 2,
           under \in {"Empty", "OccupiedSame", "OccupiedOther", "Reference"} :
            /\ emit' = [cols |-> cols, x |-> x, w |-> w, under |-> under,
                        cells |-> EmitCells(cols, x, w, EmitChanged(under))]
            /\ UNCHANGED <<term, last, steps, snap, kam, whole, parts, feeds,
                           renderer, hist, sixel>>

NextEmit == Emit

SpecEmit == Init /\ [][NextEmit]_vars

\* ---- Sixel ----

\* one call on the Sixel that leaves it as s2
SixelCall(s2) ==
    /\ ~sixel.panic
    /\ sixel.calls < MaxSixel
    /\ sixel' = [s2 EXCEPT !.calls = sixel.calls + 1]
    /\ UNCHANGED <<term, last, steps, snap, kam, whole, parts, feeds,
                   renderer, hist, emit>>

\* Sixel::new for another image
NewSixel ==
    \E width \in 1 .. MaxTile, height \in 1 .. MaxTile :
        \E aspect \in 1 .. 2, background \in BOOLEAN :
            /\ sixel.calls = 0
            /\ sixel' = [SixelNew(aspect, background, width, height)
                            EXCEPT !.calls = 1]
            /\ UNCHANGED <<term, last, steps, snap, kam, whole, parts, feeds,
                           renderer, hist, emit>>

Aspect == \E aspect \in 1 .. 2 : SixelCall(SixelAspect(sixel, aspect))

Enable == \E id \in 0 .. 1 : SixelCall(SixelEnable(sixel, id))

Define == SixelCall(SixelDefine(sixel, 1))

Start == SixelCall(SixelStart(sixel))

NextBand == SixelCall(SixelNext(sixel))

Draw == \E value \in {{}, 0 .. 5} : SixelCall(SixelDraw(sixel, value))

NextSixel ==
    \/ NewSixel
    \/ Aspect
    \/ Enable
    \/ Define
    \/ Start
    \/ NextBand
    \/ Draw

SpecSixel == Init /\ [][NextSixel]_vars

\* ---- the grid: text, movement, erases, scrolls ----

Next ==
    \/ Text
    \/ CarriageReturn
    \/ LineFeed
    \/ Backspace
    \/ NextLine
    \/ CursorPosition
    \/ EraseDisplayCsi
    \/ EraseLineCsi
    \/ DeleteLineCsi
    \/ InsertLineCsi
    \/ DECALN
    \/ DECBI
    \/ DECFI
    \/ WrapH
    \/ WrapL
    \/ SelectGraphicalRenditionCsi

Spec == Init /\ [][Next]_vars

\* ---- the cursor: moves, save and restore ----

NextCursor ==
    \/ CarriageReturn
    \/ LineFeed
    \/ Backspace
    \/ CursorPosition
    \/ CursorUp
    \/ CursorDown
    \/ CursorBack
    \/ CursorForward
    \/ LinePosition
    \/ DECSC
    \/ DECRC
    \/ SaveCursorCsi
    \/ RestoreCursorCsi
    \/ SelectGraphicalRenditionCsi
    \/ DECSCUSR
    \/ Osc

SpecCursor == Init /\ [][NextCursor]_vars

\* ---- the modes, the output sink and key() ----

NextMode ==
    \/ Text
    \/ LineFeed
    \/ DECKPAM
    \/ DECKPNM
    \/ SetMode
    \/ ResetMode
    \/ PrivateH
    \/ PrivateL
    \/ DeviceAttributesCsi
    \/ Osc
    \/ KeyPress

SpecMode == Init /\ [][NextMode]_vars

----------------------------------------------------------------------------
(* The claims.                                                             *)

\* the visible window, cell by cell
Window(t) == [c \in AreaCoords |-> CellAt(t, c[1], c[2])]

\* the state of a Terminal that handle() and key() keep between calls
StateOf(t) == <<t.rows, t.cursor, t.saved, t.mode, t.cache>>

\* C1: feeding a byte stream in two halves leaves the same grid, cursor and
\* modes as feeding it in one call, wherever the stream is cut.
C1_SplitEquivalence ==
    /\ whole.rows = parts.rows
    /\ whole.cursor = parts.cursor
    /\ whole.mode = parts.mode

\* C2: every Reference{k} at column x of a row has, at column x - k of the
\* same row, an Occupied cell whose grapheme is at least k + 1 columns wide.
C2_ReferenceHasBase ==
    \A r \in 1 .. Len(term.rows) :
        \A c \in 1 .. Cols :
            term.rows[r][c].tag = "Reference" =>
                LET k == term.rows[r][c].offset
                IN  /\ c - k >= 1
                    /\ term.rows[r][c - k].tag = "Occupied"
                    /\ Width(term.rows[r][c - k].value) >= k + 1

\* C3: every Occupied cell whose grapheme is w > 1 columns wide is followed,
\* in its row, by Reference{1} .. Reference{w - 1}.
C3_WideHasReferences ==
    \A r \in 1 .. Len(term.rows) :
        \A c \in 1 .. Cols :
            term.rows[r][c].tag = "Occupied" =>
                \A i \in 1 .. Width(term.rows[r][c].value) - 1 :
                    /\ c + i <= Cols
                    /\ term.rows[r][c + i] = Reference(i)

\* C4: every visible cell that a call changes is among the dirty coordinates
\* the call returns.
C4_DirtyCoversChanges ==
    [][\A c \in AreaCoords :
           Window(term)[c] # Window(term')[c] => c \in term'.dirty]_vars

\* C5: after CSI ?25l the cursor is invisible, after CSI ?25h it is visible.
C5_CursorVisibility ==
    /\ (last.op = "PrivateL" /\ last.n = 25) => ~term.cursor.visible
    /\ (last.op = "PrivateH" /\ last.n = 25) => term.cursor.visible

\* C6: a DeviceAttributes request is answered with exactly ESC [ ? 6 c, and
\* no other item handle() handles writes to the output sink.
C6_IdentityReply ==
    /\ (last.op = "DeviceAttributes" /\ last.n = 0) =>
           term.output = <<ESC, 91, 63, 54, 99>>
    /\ last.op \notin {"DeviceAttributes", "key"} => term.output = <<>>

\* C7: key() writes nothing and changes no terminal state when the most
\* recently handled of CSI 2h and CSI 2l was 2h, and writes the key's bytes
\* otherwise.
C7_KeyboardLock ==
    [][last'.op = "key" =>
          IF kam = "h"
          THEN term'.output = <<>> /\ StateOf(term') = StateOf(term)
          ELSE term'.output # <<>> /\ Head(term'.output) \in {ESC, 13}]_vars

\* a key() call was made while the keyboard was locked by CSI 2h
C7_Witness == last.op = "key" /\ kam = "h" /\ steps >= 2

\* C8: a restore that follows a save and cursor moves only leaves the cursor
\* identical to the cursor at the time of the save.
C8_RestoreIdentical == snap.phase = "restored" => term.cursor = snap.cursor

\* a save, moves that took the cursor elsewhere and extended the grid, and
\* the restore
C8_Witness ==
    snap.phase = "restored" /\ snap.moved /\ snap.grew /\ Len(term.rows) > Rows

\* C9: with WRAP set, a width-2 grapheme arriving at column Cols - 1 of row y
\* is written at (0, y + 1), with Reference{1} at (1, y + 1), and
\* (Cols - 1, y) stays Empty.
C9_WrapToColumnZero ==
    [][(/\ last'.op = "Text" /\ last'.n = Wide
        /\ "WRAP" \in term.mode
        /\ term.cursor.x = Cols - 1
        /\ term.cursor.y < Rows - 1
        /\ CellAt(term, Cols - 1, term.cursor.y).tag = "Empty")
       => (/\ CellAt(term', 0, term.cursor.y + 1) = Occupied(Wide, term.cursor.style)
           /\ CellAt(term', 1, term.cursor.y + 1) = Reference(1)
           /\ CellAt(term', Cols - 1, term.cursor.y).tag = "Empty")]_vars

\* C10: while WRAP is reset, writing a grapheme neither changes the cursor's
\* row nor appends rows to the grid.
C10_NoWrapWhileReset ==
    [][(last'.op = "Text" /\ "WRAP" \notin term.mode)
       => (/\ term'.cursor.y = term.cursor.y
           /\ Len(term'.rows) = Len(term.rows))]_vars

\* C11: when parse() rejects a sequence of the buffer, handle() returns
\* normally, the items before the sequence stay applied to grid, cursor and
\* modes, nothing at or after it is applied, and none of its bytes stays in
\* the incomplete-input cache.
C11_ErrorSkipsRest ==
    /\ ~whole.panic
    /\ whole.rows = parts.rows
    /\ whole.cursor = parts.cursor
    /\ whole.mode = parts.mode
    /\ whole.saved = parts.saved
    /\ whole.cache = <<>>

\* two buffers with a rejected sequence were handled, and the items before
\* the sequences changed grid, cursor and modes
C11_Witness ==
    /\ feeds = 2
    /\ whole.rows # Open.rows
    /\ whole.cursor # NewCursor
    /\ whole.mode # Open.mode

\* the snapshot that stands for a live cell: its style, its value if it is
\* Occupied, valid
LiveSnapshot(cell) ==
    Snapshot(cell.style, IF cell.tag = "Empty" THEN <<>> ELSE <<cell.value>>, TRUE)

\* C12: Cache::update returns false exactly when the snapshot of the
\* position was valid and had the live cell's style, emptiness and value;
\* after the call the snapshot is valid and equals the live cell, and the
\* same update repeated at once returns false.
C12_UpdateReportsChange ==
    hist.op = "update" =>
        /\ hist.returned = FALSE <=> hist.before = LiveSnapshot(hist.cell)
        /\ renderer.inner[InnerIndex(renderer, hist.x, hist.y)] =
               LiveSnapshot(hist.cell)
        /\ ~Update(renderer, hist.x, hist.y, hist.cell).returned

\* an update found a stale snapshot that otherwise equalled the live cell,
\* and returned true
C12_Witness ==
    /\ hist.op = "update"
    /\ hist.returned
    /\ ~hist.before.valid
    /\ [hist.before EXCEPT !.valid = TRUE] = LiveSnapshot(hist.cell)
    /\ hist.cell.tag = "Occupied"

\* the time of the last compute() of a key
LastUse(key) == (CHOOSE u \in hist.used : u[1] = key)[2]

\* C13: after compute() calls with N distinct keys the glyph cache of
\* capacity C holds min(N, C) entries, every key with the attributes
\* BOLD, FAINT and ITALIC only, and an evicted entry was used (inserted or
\* hit) less recently than every entry kept.
C13_LeastRecentlyUsedEvicted ==
    /\ Len(renderer.glyphs) = Min(Cardinality(hist.seen), Capacity)
    /\ Cardinality(Keys(renderer)) = Len(renderer.glyphs)
    /\ Keys(renderer) \subseteq hist.seen
    /\ \A e \in hist.evicted :
          \A k \in Keys(renderer) : LastUse(e) < LastUse(k)

\* a compute() evicted an entry after an earlier compute() had hit one
C13_Witness ==
    /\ hist.op = "compute"
    /\ hist.evicted # {}
    /\ hist.hits >= 1
    /\ Cardinality(hist.seen) > Capacity

\* C14: the grid never holds more rows than the visible window plus the
\* configured scrollback capacity; with scrollback disabled no row is
\* appended.
C14_ScrollbackBounded == Len(term.rows) <= Rows + Scrollback

\* C15: every row of the grid has exactly Cols cells and the grid has at
\* least Rows rows, after column scrolls, InsertLine, DeleteLine and scroll
\* extension as after anything else.
C15_GridShape ==
    /\ Len(term.rows) >= Rows
    /\ \A r \in 1 .. Len(term.rows) :
          DOMAIN term.rows[r] = 1 .. Cols

\* a column scroll by DECBI at column 0 of a grid that holds scrollback
C15_Witness ==
    /\ last.op = "DECBI" /\ last.x = 0
    /\ Len(term.rows) > Rows
    /\ ~term.panic

\* C16: a grapheme written on a column of a wide glyph resets the glyph: on
\* a Reference column the grapheme is stored as Occupied and the base no
\* longer holds the wide glyph; on the base, the Reference columns do not
\* remain.
C16_OverwriteResetsWideGlyph ==
    [][(last'.op = "Text" /\ last'.n = Narrow /\ ~term'.panic) =>
          LET x == term.cursor.x
              y == term.cursor.y
              cell == CellAt(term, x, y)
          IN  /\ (/\ cell.tag = "Reference"
                  /\ x - cell.offset >= 0
                  /\ CellAt(term, x - cell.offset, y).tag = "Occupied"
                  /\ Width(CellAt(term, x - cell.offset, y).value) > cell.offset)
                 => /\ CellAt(term', x, y) = Occupied(Narrow, term.cursor.style)
                    /\ ~(/\ CellAt(term', x - cell.offset, y).tag = "Occupied"
                         /\ Width(CellAt(term', x - cell.offset, y).value) > 1)
              /\ (/\ cell.tag = "Occupied"
                  /\ Width(cell.value) > 1
                  /\ x + 1 <= Cols - 1
                  /\ CellAt(term, x + 1, y) = Reference(1))
                 => CellAt(term', x + 1, y).tag # "Reference"]_vars

\* row r of the grid shifted one column to the right, resp. to the left,
\* with an Empty cell at the vacated edge
ShiftedRight(old, new) ==
    /\ new[1].tag = "Empty"
    /\ \A c \in 2 .. Cols : new[c] = old[c - 1]

ShiftedLeft(old, new) ==
    /\ new[Cols].tag = "Empty"
    /\ \A c \in 1 .. Cols - 1 : new[c] = old[c + 1]

\* C17: DECBI at column 0 shifts every row of the visible window one
\* column to the right, DECFI at column Cols - 1 one column to the left,
\* and no row outside the window changes, whatever scrollback the grid
\* holds; away from that edge the grid is unchanged and the cursor moves
\* one column.
C17_ColumnScrollWindow ==
    [][/\ (last'.op = "DECBI" /\ term.cursor.x = 0) =>
              /\ Len(term'.rows) = Len(term.rows)
              /\ \A r \in 1 .. Len(term.rows) :
                    IF r > Len(term.rows) - Rows
                    THEN ShiftedRight(term.rows[r], term'.rows[r])
                    ELSE term'.rows[r] = term.rows[r]
       /\ (last'.op = "DECFI" /\ term.cursor.x = Cols - 1) =>
              /\ Len(term'.rows) = Len(term.rows)
              /\ \A r \in 1 .. Len(term.rows) :
                    IF r > Len(term.rows) - Rows
                    THEN ShiftedLeft(term.rows[r], term'.rows[r])
                    ELSE term'.rows[r] = term.rows[r]
       /\ (last'.op = "DECBI" /\ term.cursor.x > 0) =>
              /\ term'.rows = term.rows
              /\ term'.cursor = [term.cursor EXCEPT !.x = @ - 1]
       /\ (last'.op = "DECFI" /\ term.cursor.x < Cols - 1) =>
              /\ term'.rows = term.rows
              /\ term'.cursor = [term.cursor EXCEPT !.x = @ + 1]]_vars

\* C18: for 0 <= n <= Rows - y, DeleteLine(n) removes the visible rows
\* y .. y + n - 1, moves the rows below up and leaves n fresh Empty rows at
\* the end of the grid; InsertLine(n) puts n fresh Empty rows at y, moves
\* the former rows y .. Rows - n - 1 down and discards the bottom n rows.
\* Rows above y, scrollback, grid length and cursor are unchanged and the
\* visible rows y .. Rows - 1 are marked touched.
C18_DeleteInsertLine ==
    [][(/\ last'.op \in {"DeleteLine", "InsertLine"}
        /\ last'.n <= Rows - term.cursor.y) =>
          LET n == last'.n
              y == term.cursor.y
              above == Len(term.rows) - Rows + y
              fresh == [c \in 1 .. Cols |-> Empty(term.cursor.style)]
          IN  /\ ~term'.panic
              /\ Len(term'.rows) = Len(term.rows)
              /\ term'.cursor = term.cursor
              /\ \A j \in y .. Rows - 1 : \A i \in 0 .. Cols - 1 :
                     <<i, j>> \in term'.dirty
              /\ \A r \in 1 .. Len(term.rows) :
                     term'.rows[r] =
                        IF r <= above THEN term.rows[r]
                        ELSE IF last'.op = "DeleteLine"
                        THEN (IF r + n <= Len(term.rows)
                              THEN term.rows[r + n] ELSE fresh)
                        ELSE (IF r <= above + n
                              THEN fresh ELSE term.rows[r - n])]_vars

\* an InsertLine(1) with the cursor below the first visible row of a grid
\* that holds scrollback and text
C18_Witness ==
    /\ last.op = "InsertLine" /\ last.n = 1 /\ last.y >= 1
    /\ Len(term.rows) > Rows
    /\ ~term.panic
    /\ \E r \in 1 .. Len(term.rows) : \E c \in 1 .. Cols :
          term.rows[r][c].tag = "Occupied"

\* C19: after DECALN every cell of the grid, scrollback included, is
\* Occupied with "E" in the cursor's style, the whole area is touched, and
\* cursor and modes are unchanged.
C19_AlignmentFillsGrid ==
    [][last'.op = "DECALN" =>
          /\ \A r \in 1 .. Len(term'.rows) : \A c \in 1 .. Cols :
                term'.rows[r][c] = Occupied(LetterE, term.cursor.style)
          /\ term'.dirty = AreaCoords
          /\ term'.cursor = term.cursor
          /\ term'.mode = term.mode]_vars

\* C20: after Cache::resize(width, height) the snapshot grid has
\* width * height entries and the first update of every position returns
\* true, whatever the live cell holds.
C20_ResizeInvalidates ==
    hist.op = "resize" =>
        /\ Len(renderer.inner) = renderer.width * renderer.height
        /\ \A x \in 0 .. renderer.width - 1, y \in 0 .. renderer.height - 1 :
              \A cell \in LiveCells : Update(renderer, x, y, cell).returned

\* C21: a restore consumes the saved cursor. A DECRC or CSI RestoreCursor
\* with no cursor saved (never saved, or restored since the last save)
\* leaves the cursor as it is; with one saved, by ESC 7 or by CSI s alike,
\* it puts that cursor back.
C21_RestoreConsumesSaved ==
    [][last'.op \in {"DECRC", "RestoreCursor"} =>
          term'.cursor = IF snap.held THEN snap.slot ELSE term.cursor]_vars

\* the second of two restores after one save, with the cursor elsewhere
\* than where it was saved
C21_Witness ==
    /\ last.op \in {"DECRC", "RestoreCursor"}
    /\ snap.restores = 2
    /\ term.cursor # snap.slot

\* the cursor style after the i-th of the SGR sequences, from the style
\* before it: parameter 31 is the foreground palette[1], 1 is bold, 4 is
\* underline, 0 and no parameter are the reset
StyleAfter(i, style) ==
    CASE i = 1 -> [style EXCEPT !.foreground = <<1>>]
      [] i = 2 -> DefaultStyle
      [] i = 3 -> [style EXCEPT !.foreground = <<1>>,
                                !.attributes = (@ \ {"FAINT"}) \cup {"BOLD"}]
      [] i = 4 -> DefaultStyle
      [] i = 5 -> [DefaultStyle EXCEPT !.attributes = {"UNDERLINE"}]
      [] i = 6 -> DefaultStyle

\* C22: an SGR sequence changes the cursor style only, its parameters taken
\* from left to right, a reset giving the default style whatever came
\* before it; no cell of the grid changes, and every grapheme written
\* afterwards carries the cursor style.
C22_SgrStyle ==
    [][/\ last'.op = "SGR" =>
              /\ term'.rows = term.rows
              /\ term'.cursor =
                     [term.cursor EXCEPT !.style = StyleAfter(last'.n, @)]
       /\ last'.op = "Text" =>
              \A r \in 1 .. Len(term.rows) : \A c \in 1 .. Cols :
                  (/\ term'.rows[r][c] # term.rows[r][c]
                   /\ term'.rows[r][c].tag = "Occupied")
                  => term'.rows[r][c].style = term.cursor.style]_vars

\* 'A ESC[31m B ESC[0m': A has the default style, B the red foreground,
\* and the cursor style is the default again
C22_Witness ==
    /\ last.op = "SGR" /\ last.n = 2
    /\ CellAt(term, 0, 0) = Occupied(Narrow, DefaultStyle)
    /\ CellAt(term, 1, 0) = Occupied(Narrow, [DefaultStyle EXCEPT !.foreground = <<1>>])
    /\ term.cursor.style = DefaultStyle

\* the Occupied cells of the grid
OccupiedCells(t) ==
    {rc \in (1 .. Len(t.rows)) \X (1 .. Cols) : t.rows[rc[1]][rc[2]].tag = "Occupied"}

\* C23: with WRAP set, a run of k narrow graphemes written from column 0
\* of an empty grid leaves k Occupied cells, for k > Cols too: the grapheme
\* after the last column goes to the next line, not over the last column.
C23_RunKeepsEveryGrapheme ==
    [][(/\ last'.op = "NarrowRun"
        /\ "WRAP" \in term.mode
        /\ term.cursor.x = 0
        /\ OccupiedCells(term) = {})
       => Cardinality(OccupiedCells(term')) = last'.n]_vars

\* C24: whatever the width of the terminal, the cursor column and the
\* width (0, 1 or 2) of the grapheme, the cells a write touches are in
\* columns 0 .. cols - 1.
C24_TextStaysInRow == emit.cells \subseteq 0 .. emit.cols - 1

\* C25: DeleteLine(n) and InsertLine(n) never reach outside the grid nor
\* underflow, for n beyond the rows below the cursor as well, and leave
\* the grid with as many rows as before.
C25_LineCountInRange ==
    [][last'.op \in {"DeleteLine", "InsertLine"} =>
          /\ ~term'.panic
          /\ Len(term'.rows) = Len(term.rows)]_vars

\* C26: Sixel::draw only writes to tiles that exist: no index leaves the
\* tile grid, whatever the tile size and the calls before.
C26_DrawInsideTileGrid == ~sixel.panic

\* C27: a row that has left the visible window is never modified, removed
\* or moved by a later call.
C27_HistoryImmutable ==
    [][/\ Len(term'.rows) >= Len(term.rows)
       /\ \A r \in 1 .. Len(term.rows) - Rows : term'.rows[r] = term.rows[r]]_vars

\* a DeleteLine below a history row that holds text
C27_Witness ==
    /\ last.op = "DeleteLine" /\ last.n >= 1
    /\ ~term.panic
    /\ Len(term.rows) > Rows
    /\ \E c \in 1 .. Cols : term.rows[1][c].tag = "Occupied"

\* C28: EraseDisplay(ToEnd) changes no visible cell before the cursor in
\* row-major order, EraseDisplay(ToStart) none after it, and neither moves
\* the cursor.
C28_EraseDisplayFrame ==
    [][/\ last'.op = "EraseDisplayToEnd" =>
              /\ term'.cursor = term.cursor
              /\ \A c \in AreaCoords :
                     (c[2] < term.cursor.y \/ (c[2] = term.cursor.y /\ c[1] < term.cursor.x))
                     => Window(term')[c] = Window(term)[c]
       /\ last'.op = "EraseDisplayToStart" =>
              /\ term'.cursor = term.cursor
              /\ \A c \in AreaCoords :
                     (c[2] > term.cursor.y \/ (c[2] = term.cursor.y /\ c[1] > term.cursor.x))
                     => Window(term')[c] = Window(term)[c]]_vars

=============================================================================
